---- MODULE Spec2Model ----
(***************************************************************************)
(* Model of the refine-css renaming engine: the escaping codec, the naming *)
(* strategies, the conversion tables and the selector tree walker.         *)
(*                                                                         *)
(* Strings are sequences of UTF-16 code units (natural numbers), so that   *)
(* escaping, unescaping and parsing are computed unit by unit as the code  *)
(* does.                                                                   *)
(***************************************************************************)
EXTENDS Integers, Sequences, FiniteSets, TLC

VARIABLES
    \* escaping codec exercised on one string
    x, escaped, unescaped, phase,
    \* process-wide hash instance (TRUE once initializeHash has set it)
    hashInstance,
    \* the transform call in progress: its number, its parameters, the
    \* tables it was given and the state of its run
    call, cfg, supplied, status,
    \* the two conversion tables and the counter of the minimal strategy
    selectorConversionTable, identConversionTable, minimalCounter,
    \* the nodes the CSS engine has visited in the first call, the number of
    \* nodes visited in the current call and what the visitor returned
    input, pos, out,
    \* history: the entries written by the current call, in order; what the
    \* first call gave; whether the second call was given its tables
    created, first, resupplied,
    \* numberToLetters exercised on one number
    num, letters,
    \* the callers of initializeHash, the number of times the hash instance
    \* has been assigned, and the last result of a direct generateHash call
    pc, installs, hashed,
    \* transform calls in progress side by side, each with tables of its own
    calls

escVars == <<x, escaped, unescaped, phase>>

mainVars == <<hashInstance, call, cfg, supplied, status,
              selectorConversionTable, identConversionTable, minimalCounter,
              input, pos, out, created, first, resupplied>>

numVars == <<num, letters>>

hashVars == <<pc, installs, hashed>>

concVars == <<calls>>

vars == <<x, escaped, unescaped, phase,
          hashInstance, call, cfg, supplied, status,
          selectorConversionTable, identConversionTable, minimalCounter,
          input, pos, out, created, first, resupplied,
          num, letters, pc, installs, hashed, calls>>

----------------------------------------------------------------------------
(* Bounds *)

\* longest raw string fed to the escaping codec
MaxLen == 3

\* most nodes (selectors and dashed identifiers) of one stylesheet
MaxVisits == 3

\* longest string hashed by a direct call of generateHash
MaxHashLen == 2

\* most nodes visited by each of two transform calls that run side by side
MaxConcVisits == 2

\* largest number given to numberToLetters
MaxNum == 705

\* callers of initializeHash
MaxCallers == 3

----------------------------------------------------------------------------
(* Code units *)

IsDigit(c) == c >= 48 /\ c <= 57
IsUpper(c) == c >= 65 /\ c <= 90
IsLower(c) == c >= 97 /\ c <= 122
\* [\dA-Fa-f]
IsHexDigit(c) == IsDigit(c) \/ (c >= 65 /\ c <= 70) \/ (c >= 97 /\ c <= 102)
\* [\t\n\f\r ]
IsCssSpace(c) == c \in {9, 10, 12, 13, 32}

HexValue(c) == IF IsDigit(c) THEN c - 48 ELSE IF c >= 97 THEN c - 87 ELSE c - 55

HexChar(d) == IF d < 10 THEN 48 + d ELSE 87 + d

\* Number.prototype.toString(16)
RECURSIVE ToHex(_)
ToHex(n) == IF n < 16 THEN <<HexChar(n)>>
            ELSE ToHex(n \div 16) \o <<HexChar(n % 16)>>

\* Number.parseInt(digits, 16) on a run of hex digits
RECURSIVE ParseHex(_, _)
ParseHex(digits, acc) ==
    IF digits = <<>> THEN acc
    ELSE ParseHex(Tail(digits), acc * 16 + HexValue(Head(digits)))

\* String.fromCodePoint: one code unit in the BMP, a surrogate pair above it
\* (a code point above 0x10FFFF is a RangeError, shown as the unit -1)
FromCodePoint(n) ==
    IF n < 65536 THEN <<n>>
    ELSE IF n > 1114111 THEN <<-1>>
    ELSE <<55296 + ((n - 65536) \div 1024), 56320 + ((n - 65536) % 1024)>>

----------------------------------------------------------------------------
(* cssEscape *)

\* the missing trailing space after a hexadecimal escape
EscapeAsCodePointNoSpace(codeUnit) == <<92>> \o ToHex(codeUnit)

\* `\\${codeUnit.toString(16)} `
EscapeAsCodePoint(codeUnit) == <<92>> \o ToHex(codeUnit) \o <<32>>

\* one iteration of the while loop of cssEscape: the text appended for
\* the code unit at position index (1-based here, index - 1 in the source)
EscapeUnit(string, index) ==
    LET codeUnit == string[index]
        firstCodeUnit == string[1]
    IN  IF codeUnit = 0 THEN <<65533>>
        ELSE IF \/ (codeUnit >= 1 /\ codeUnit <= 31)
                \/ codeUnit = 127
                \/ (index = 1 /\ IsDigit(codeUnit))
                \/ (index = 2 /\ IsDigit(codeUnit) /\ firstCodeUnit = 45)
             THEN EscapeAsCodePoint(codeUnit)
        ELSE IF \/ codeUnit >= 128
                \/ codeUnit = 45
                \/ codeUnit = 95
                \/ IsDigit(codeUnit)
                \/ IsUpper(codeUnit)
                \/ IsLower(codeUnit)
             THEN <<codeUnit>>
        ELSE <<92, codeUnit>>

RECURSIVE EscapeFrom(_, _)
EscapeFrom(string, index) ==
    IF index > Len(string) THEN <<>>
    ELSE EscapeUnit(string, index) \o EscapeFrom(string, index + 1)

cssEscape(value) ==
    IF Len(value) = 1 /\ value[1] = 45 THEN <<92>> \o value
    ELSE EscapeFrom(value, 1)

----------------------------------------------------------------------------
(* cssUnescape *)

\* number of hexadecimal digits at s[i..], at most limit of them
RECURSIVE HexRun(_, _, _)
HexRun(s, i, limit) ==
    IF limit = 0 \/ i > Len(s) \/ ~IsHexDigit(s[i]) THEN 0
    ELSE 1 + HexRun(s, i + 1, limit - 1)

\* length of the match of /\\([\dA-Fa-f]{1,6}[\t\n\f\r ]?|[\S\s])/ at s[i],
\* 0 when the expression does not match there
MatchLength(s, i) ==
    IF s[i] # 92 \/ i = Len(s) THEN 0
    ELSE LET h == HexRun(s, i + 1, 6)
         IN  IF h = 0 THEN 2
             ELSE IF i + h + 1 <= Len(s) /\ IsCssSpace(s[i + h + 1])
                  THEN h + 2
                  ELSE h + 1

\* the replacement callback of cssUnescape
UnescapeMatch(s, i, mlen) ==
    IF mlen > 2
    THEN FromCodePoint(ParseHex(SubSeq(s, i + 1, i + HexRun(s, i + 1, 6)), 0))
    ELSE <<s[i + 1]>>

RECURSIVE UnescapeFrom(_, _)
UnescapeFrom(s, i) ==
    IF i > Len(s) THEN <<>>
    ELSE LET mlen == MatchLength(s, i)
         IN  IF mlen = 0 THEN <<s[i]>> \o UnescapeFrom(s, i + 1)
             ELSE UnescapeMatch(s, i, mlen) \o UnescapeFrom(s, i + mlen)

cssUnescape(e) == UnescapeFrom(e, 1)

----------------------------------------------------------------------------
(* Conversion tables *)

\* a ConversionTable is a function from escaped keys to escaped values
EmptyTable == <<>>

Values(table) == {table[k] : k \in DOMAIN table}

\* "valueOf": a member name of Object.prototype, which every table object
\* ({} or the result of JSON.parse) inherits
valueOf == <<118, 97, 108, 117, 101, 79, 102>>

ObjectPrototypeKeys == {valueOf}

\* String(Object.prototype.valueOf): "function valueOf() { [native code] }"
NativeFunctionText(key) ==
    <<102, 117, 110, 99, 116, 105, 111, 110, 32>> \o key \o
    <<40, 41, 32, 123, 32, 91, 110, 97, 116, 105, 118, 101, 32,
      99, 111, 100, 101, 93, 32, 125>>

\* a table value that JSON.parse gave and that is a number instead of a
\* string: a mark that is no code unit, then the text String(value) gives
NotAString == -1

JsonNumber(text) == <<NotAString>> \o text

IsString(value) == value = <<>> \/ value[1] # NotAString

\* conversionTable[escaped]: an own entry (a string, or a number of a
\* table that was parsed from a file), else a member inherited from
\* Object.prototype, else undefined
Get(table, key) ==
    IF key \in DOMAIN table
    THEN IF IsString(table[key]) THEN [kind |-> "own", s |-> table[key]]
         ELSE [kind |-> "number", s |-> Tail(table[key])]
    ELSE IF key \in ObjectPrototypeKeys
         THEN [kind |-> "inherited", s |-> NativeFunctionText(key)]
         ELSE [kind |-> "undefined", s |-> <<>>]

\* `if (conversionTable[escaped])`: the empty string, the number 0 and
\* undefined are falsy
Truthy(v) ==
    \/ v.kind = "inherited"
    \/ v.kind = "own" /\ v.s # <<>>
    \/ v.kind = "number" /\ v.s # <<48>>

\* conversionTable[escaped] = value
Put(table, key, value) == (key :> value) @@ table

----------------------------------------------------------------------------
(* Naming strategies *)

RECURSIVE LettersLoop(_, _)
LettersLoop(n, s) ==
    IF n > 0
    THEN LettersLoop((n - 1) \div 26, <<97 + ((n - 1) % 26)>> \o s)
    ELSE s

\* numberToLetters without `num++`
numberToLettersUnshifted(n) == LettersLoop(n, <<>>)

\* `num++` (make it 1-indexed), then the while loop
numberToLetters(n) == LettersLoop(n + 1, <<>>)

LOWERCASE_A_CHARCODE == 97
LOWERCASE_Z_CHARCODE == 122

\* hashInstance.h32ToString(value, seed) of xxhash-wasm, an opaque
\* deterministic function of (value, seed) that returns a fixed-length
\* lower-case hexadecimal string; shown here at a width of 8 bits
RECURSIVE Mix(_, _)
Mix(value, acc) ==
    IF value = <<>> THEN acc
    ELSE Mix(Tail(value), (acc * 31 + Head(value)) % 256)

h32ToString(value, seed) ==
    LET h == Mix(value, seed % 256)
    IN  <<HexChar(h \div 16), HexChar(h % 16)>>

\* the hash as the primitive returned it
ForceFirstCharKept(hashValue) == hashValue

\* the first character of the hash forced into a..z
ForceFirstChar(hashValue) ==
    LET firstCharCode == hashValue[1]
    IN  IF firstCharCode < LOWERCASE_A_CHARCODE
           \/ firstCharCode > LOWERCASE_Z_CHARCODE
        THEN <<LOWERCASE_A_CHARCODE + (firstCharCode % 26)>> \o Tail(hashValue)
        ELSE hashValue

\* generateHash without the test of the hash instance
generateHashUnchecked(value, seed, instance) ==
    [threw |-> FALSE, s |-> ForceFirstChar(h32ToString(value, seed))]

\* generateHash: throws while the hash instance is null
generateHash(value, seed, instance) ==
    IF ~instance THEN [threw |-> TRUE, s |-> <<>>]
    ELSE [threw |-> FALSE, s |-> ForceFirstChar(h32ToString(value, seed))]

\* the callback that stores the bare value, without a sigil
onNewValueBare(originalValue, valueToSave) == valueToSave

\* the callback the selector walker passes as options.onNewValueBeforeAdd
onNewValueBeforeAdd(originalValue, valueToSave) ==
    IF originalValue # <<>> /\ originalValue[1] = 35 THEN <<35>> \o valueToSave
    ELSE IF originalValue # <<>> /\ originalValue[1] = 46
         THEN <<46>> \o valueToSave
         ELSE valueToSave

\* the counter is left as it is after a new entry
KeepCounter(counter) == counter

\* minimalCounter++
IncrementCounter(counter) == counter + 1

\* newVal / hashValue, with the escaped value embedded in debug mode
NewValueEscaped(c, value, counter, instance) ==
    IF c.mode = "minimal"
    THEN [threw |-> FALSE,
          s |-> c.prefix \o numberToLetters(counter) \o c.suffix]
    ELSE IF c.mode = "debug"
    THEN [threw |-> FALSE,
          s |-> c.debugSymbol \o c.prefix \o cssEscape(value) \o c.suffix]
    ELSE [threw |-> generateHash(value, c.seed, instance).threw,
          s |-> c.prefix \o generateHash(value, c.seed, instance).s
                \o c.suffix]

\* newVal / hashValue of the three closures of createConversionFunction
NewValue(c, value, counter, instance) ==
    IF c.mode = "minimal"
    THEN [threw |-> FALSE,
          s |-> c.prefix \o numberToLetters(counter) \o c.suffix]
    ELSE IF c.mode = "debug"
    THEN [threw |-> FALSE,
          s |-> c.debugSymbol \o c.prefix \o value \o c.suffix]
    ELSE LET h == generateHash(value, c.seed, instance)
         IN  [threw |-> h.threw, s |-> c.prefix \o h.s \o c.suffix]

\* the function createConversionFunction returns, called on (value,
\* conversionTable, options) with the closure's counter; hasOnNew tells
\* whether options.onNewValueBeforeAdd is supplied. The result holds the
\* returned value, the table and the counter after the call, and the entry
\* written, if any.
convertFunc(c, value, table, hasOnNew, counter, instance) ==
    LET key == cssEscape(value)
        found == Get(table, key)
    IN  IF Truthy(found)
        THEN [threw |-> FALSE, ret |-> found, table |-> table,
              counter |-> counter, wrote |-> <<>>]
        ELSE LET nv == NewValue(c, value, counter, instance)
                 stored == cssEscape(IF hasOnNew
                                     THEN onNewValueBeforeAdd(value, nv.s)
                                     ELSE nv.s)
             IN  IF nv.threw
                 THEN [threw |-> TRUE, ret |-> found, table |-> table,
                       counter |-> counter, wrote |-> <<>>]
                 ELSE [threw |-> FALSE,
                       ret |-> [kind |-> "own", s |-> nv.s],
                       table |-> Put(table, key, stored),
                       counter |-> IF c.mode = "minimal"
                                   THEN IncrementCounter(counter)
                                   ELSE counter,
                       wrote |-> <<[key |-> key, val |-> stored,
                                    name |-> nv.s, counter |-> counter]>>]

----------------------------------------------------------------------------
(* Selector components *)

\* a SelectorComponent: type, kind (of a pseudo-class), name, and sels, the
\* nested selectors of a pseudo-class (`selectors` of not/where/is/any/has,
\* the one selector of `:host(...)`, the `of` list of nth-child); a Selector
\* is a sequence of components
Component(type, kind, name, sels) ==
    [type |-> type, kind |-> kind, name |-> name, sels |-> sels]

Class(name) == Component("class", "", name, <<>>)
Id(name) == Component("id", "", name, <<>>)
Type(name) == Component("type", "", name, <<>>)
Universal == Component("universal", "", <<>>, <<>>)
Attribute(name) == Component("attribute", "", name, <<>>)
Descendant == Component("combinator", "descendant", <<>>, <<>>)
PseudoElement(name) == Component("pseudo-element", "", name, <<>>)
PseudoClass(kind, sels) == Component("pseudo-class", kind, <<>>, sels)
Nesting == Component("nesting", "", <<>>, <<>>)
Namespace(prefix) == Component("namespace", "named", prefix, <<>>)

\* undefined for every component
stringifyUndefined(component) == [defined |-> FALSE, s |-> <<>>]

\* stringifySelectorComponent: undefined for the kinds without a text form
stringifySelectorComponent(component) ==
    IF component.type = "class"
    THEN [defined |-> TRUE, s |-> <<46>> \o component.name]
    ELSE IF component.type = "id"
    THEN [defined |-> TRUE, s |-> <<35>> \o component.name]
    ELSE IF component.type = "type"
    THEN [defined |-> TRUE, s |-> component.name]
    ELSE IF component.type = "universal"
    THEN [defined |-> TRUE, s |-> <<42>>]
    ELSE IF component.type = "attribute"
    THEN [defined |-> TRUE, s |-> <<91>> \o component.name \o <<93>>]
    ELSE [defined |-> FALSE, s |-> <<>>]

----------------------------------------------------------------------------
(* parseSelectorComponent: the selector parser of the CSS engine, for the  *)
(* selector texts that reach it here: compound selectors of an optional    *)
(* type or universal selector followed by classes and ids, joined by the   *)
(* descendant combinator. Any other text is a syntax error, which the      *)
(* engine throws.                                                          *)

IsNameStart(c) == IsUpper(c) \/ IsLower(c) \/ c = 95 \/ c >= 128
IsNameChar(c) == IsNameStart(c) \/ IsDigit(c) \/ c = 45

\* a backslash at s[i] that starts a valid escape
IsValidEscape(s, i) ==
    i < Len(s) /\ s[i] = 92 /\ s[i + 1] \notin {10, 12, 13}

\* the three code units at s[i] would start an identifier
StartsIdent(s, i) ==
    /\ i <= Len(s)
    /\ \/ IsNameStart(s[i])
       \/ IsValidEscape(s, i)
       \/ /\ s[i] = 45
          /\ i < Len(s)
          /\ (IsNameStart(s[i + 1]) \/ s[i + 1] = 45 \/ IsValidEscape(s, i + 1))

\* consume a name from s[i]: the decoded name and the position after it
RECURSIVE ConsumeName(_, _, _)
ConsumeName(s, i, acc) ==
    IF i > Len(s) THEN [name |-> acc, next |-> i]
    ELSE IF IsNameChar(s[i]) THEN ConsumeName(s, i + 1, acc \o <<s[i]>>)
    ELSE IF IsValidEscape(s, i)
    THEN LET mlen == MatchLength(s, i)
         IN  ConsumeName(s, i + mlen,
                         acc \o (IF HexRun(s, i + 1, 6) > 0
                                 THEN FromCodePoint(ParseHex(
                                        SubSeq(s, i + 1, i + HexRun(s, i + 1, 6)), 0))
                                 ELSE <<s[i + 1]>>))
    ELSE [name |-> acc, next |-> i]

RECURSIVE SkipSpace(_, _)
SkipSpace(s, i) ==
    IF i <= Len(s) /\ IsCssSpace(s[i]) THEN SkipSpace(s, i + 1) ELSE i

\* inCompound: a simple selector of the current compound has been read
RECURSIVE ParseFrom(_, _, _, _)
ParseFrom(s, i, comps, inCompound) ==
    IF i > Len(s) THEN [ok |-> inCompound, comps |-> comps]
    ELSE IF IsCssSpace(s[i])
    THEN LET j == SkipSpace(s, i)
         IN  IF j > Len(s) THEN [ok |-> inCompound, comps |-> comps]
             ELSE IF ~inCompound THEN ParseFrom(s, j, comps, FALSE)
             ELSE ParseFrom(s, j, comps \o <<Descendant>>, FALSE)
    ELSE IF s[i] = 46 /\ StartsIdent(s, i + 1)
    THEN LET n == ConsumeName(s, i + 1, <<>>)
         IN  ParseFrom(s, n.next, comps \o <<Class(n.name)>>, TRUE)
    ELSE IF s[i] = 35 /\ StartsIdent(s, i + 1)
    THEN LET n == ConsumeName(s, i + 1, <<>>)
         IN  ParseFrom(s, n.next, comps \o <<Id(n.name)>>, TRUE)
    ELSE IF s[i] = 42 /\ ~inCompound
    THEN ParseFrom(s, i + 1, comps \o <<Universal>>, TRUE)
    ELSE IF StartsIdent(s, i) /\ ~inCompound
    THEN LET n == ConsumeName(s, i, <<>>)
         IN  ParseFrom(s, n.next, comps \o <<Type(n.name)>>, TRUE)
    ELSE [ok |-> FALSE, comps |-> <<>>]

parseSelectorComponent(selectorStr) == ParseFrom(selectorStr, 1, <<>>, FALSE)

----------------------------------------------------------------------------
(* isNArray, on values that tell arrays from other values: an array is the *)
(* record [arr |-> elements], anything else is not an array                *)

Arr(elements) == [arr |-> elements]

IsArray(v) == "arr" \in DOMAIN v

\* true when every element is an array of one element
isNArrayOfSingles(v, level) ==
    /\ IsArray(v)
    /\ level = 1 \/
          (/\ Len(v.arr) > 0
           /\ \A i \in 1..Len(v.arr) :
                 IsArray(v.arr[i]) /\ Len(v.arr[i].arr) = 1)

RECURSIVE isNArray(_, _)
isNArray(v, level) ==
    IF ~IsArray(v) THEN FALSE
    ELSE IF level = 1 THEN TRUE
    ELSE IF Len(v.arr) = 0 THEN FALSE
    ELSE isNArray(v.arr[1], level - 1)

\* the array s of line 107: one array of components per nested selector
AsArrays(s) == Arr([i \in 1..Len(s) |-> Arr(s[i])])

RECURSIVE Flat(_)
Flat(s) == IF s = <<>> THEN <<>> ELSE Head(s) \o Flat(Tail(s))

----------------------------------------------------------------------------
(* The selector walker. The walker state st holds the selector table, the  *)
(* strategy's counter, the entries written so far (log), the hash instance *)
(* and whether an error was thrown.                                        *)

LogEntry(tbl, w) ==
    [tbl |-> tbl, key |-> w.key, val |-> w.val, name |-> w.name,
     counter |-> w.counter]

\* conv on a miss: r is what convertFunc returned; the walker state takes
\* the table and the counter as the call left them
Converted(r, st) ==
    [threw |-> r.threw,
     isString |-> r.ret.kind = "own",
     s |-> r.ret.s,
     comps |-> <<>>,
     st |-> [st EXCEPT
               !.sel = r.table,
               !.counter = r.counter,
               !.log = @ \o [i \in 1..Len(r.wrote) |->
                               LogEntry("selector", r.wrote[i])]]]

\* the conv callback INTERNAL_buildVisitor.Selector hands to the walker
conv(c, value, st) ==
    LET escapedValue == cssEscape(value)
        found == Get(st.sel, escapedValue)
    IN  IF Truthy(found)
        THEN IF found.kind # "own"
             THEN \* cssUnescape of a value that is not a string: TypeError
                  [threw |-> TRUE, isString |-> FALSE, s |-> <<>>,
                   comps |-> <<>>, st |-> st]
             ELSE LET p == parseSelectorComponent(cssUnescape(found.s))
                  IN  [threw |-> ~p.ok, isString |-> FALSE, s |-> <<>>,
                       comps |-> p.comps, st |-> st]
        ELSE Converted(convertFunc(c, value, st.sel, TRUE, st.counter,
                                   st.instance), st)

Thrown(component, st) ==
    [ret |-> <<>>, mut |-> component, st |-> [st EXCEPT !.threw = TRUE]]

\* the components of a replacement that equal the original component are
\* replaced once more
RenamedAndWalkedAgain(component, r) ==
    IF r.threw THEN Thrown(component, r.st)
    ELSE IF r.isString
    THEN [ret |-> <<[component EXCEPT !.name = r.s]>>,
          mut |-> [component EXCEPT !.name = r.s], st |-> r.st]
    ELSE [ret |-> Flat([i \in 1..Len(r.comps) |->
                          IF r.comps[i] = component THEN r.comps
                          ELSE <<r.comps[i]>>]),
          mut |-> component, st |-> r.st]

\* the id / class case of the walker after the call of conv: r is what
\* conv returned, a string that becomes the component's name or a list of
\* components that is returned in its place
Renamed(component, r) ==
    IF r.threw THEN Thrown(component, r.st)
    ELSE IF r.isString
    THEN LET renamed ==
               [component EXCEPT !.name =
                   IF r.s # <<>> /\ r.s[1] \in {46, 35}
                   THEN Tail(r.s) ELSE r.s]
         IN  [ret |-> <<renamed>>, mut |-> renamed, st |-> r.st]
    ELSE [ret |-> r.comps, mut |-> component, st |-> r.st]

\* the id / class case of the walker
HandleToken(c, component, st) ==
    LET componentWithType == stringifySelectorComponent(component)
    IN  IF ~componentWithType.defined \/ componentWithType.s = <<>>
        THEN Thrown(component, st)
        ELSE Renamed(component, conv(c, componentWithType.s, st))

\* the nested call of `:host(...)` and of `nth-child(... of ...)` drops its
\* return value: the nested selectors are what the call left in place
InPlace(r) == r.muts

\* INTERNAL_handleSelector(selector, ...) gives ret, the array it returns,
\* mut, the selector object it was given as the call leaves it, and the
\* walker state after the call
RECURSIVE HandleSelector(_, _, _)
RECURSIVE HandleList(_, _, _)
RECURSIVE HandleComponent(_, _, _)

\* selector.map(...) after the first component, for which the callback
\* gave h
MapRest(c, selector, h) ==
    IF h.st.threw
    THEN [ret |-> <<>>, mut |-> selector, st |-> h.st]
    ELSE LET t == HandleSelector(c, Tail(selector), h.st)
         IN  [ret |-> h.ret \o t.ret,
              mut |-> <<h.mut>> \o t.mut,
              st |-> t.st]

\* the component is dropped from the result
Dropped(component, st) == [ret |-> <<>>, mut |-> component, st |-> st]

\* `return [component]` of the branches that rename nothing
PassThrough(component, st) ==
    [ret |-> <<component>>, mut |-> component, st |-> st]

HandleComponent(c, component, st) ==
    IF component.type \in {"id", "class"} THEN HandleToken(c, component, st)
    ELSE IF component.type # "pseudo-class"
    THEN PassThrough(component, st)
    ELSE IF component.kind \in {"nth-child", "nth-last-child", "host"}
    THEN LET r == HandleList(c, component.sels, st)
             after == [component EXCEPT !.sels = InPlace(r)]
         IN  [ret |-> <<after>>, mut |-> after, st |-> r.st]
    ELSE IF component.kind \in {"not", "where", "is", "any", "has"}
    THEN LET r == HandleList(c, component.sels, st)
             s == r.rets
         IN  IF r.st.threw THEN Thrown(component, r.st)
             ELSE IF isNArray(AsArrays(s), 2)
             THEN LET after == [component EXCEPT !.sels = s]
                  IN  [ret |-> <<after>>, mut |-> after, st |-> r.st]
             ELSE [ret |-> Flat(s),
                   mut |-> [component EXCEPT !.sels = r.muts],
                   st |-> r.st]
    ELSE PassThrough(component, st)

\* selector.map(...) followed by flat(3); an error thrown by a component
\* ends the walk
HandleSelector(c, selector, st) ==
    IF selector = <<>> THEN [ret |-> <<>>, mut |-> <<>>, st |-> st]
    ELSE MapRest(c, selector, HandleComponent(c, Head(selector), st))

\* the walker applied to each selector of a list in turn
HandleList(c, sels, st) ==
    IF sels = <<>> THEN [rets |-> <<>>, muts |-> <<>>, st |-> st]
    ELSE LET h == HandleSelector(c, Head(sels), st)
         IN  IF h.st.threw
             THEN [rets |-> <<>>, muts |-> sels, st |-> h.st]
             ELSE LET t == HandleList(c, Tail(sels), h.st)
                  IN  [rets |-> <<h.ret>> \o t.rets,
                       muts |-> <<h.mut>> \o t.muts,
                       st |-> t.st]

----------------------------------------------------------------------------
(* The transform call *)

\* `let minimalCounter = 0` taken from the previous closure instead
CarriedMinimalCounter == minimalCounter

\* `let minimalCounter = 0`
InitialMinimalCounter == 0

Tables(sel, idt) == [selector |-> sel, ident |-> idt]

NoTables == Tables(EmptyTable, EmptyTable)

NoConfig == [mode |-> "none", debugSymbol |-> <<>>, prefix |-> <<>>,
             suffix |-> <<>>, seed |-> 0]

NoResult == [status |-> "none", out |-> <<>>, tables |-> NoTables]

\* the parameters of a call: the defaults in minimal, debug and hash mode,
\* minimal mode with the prefix "1" and the suffix "s", and debug mode with
\* the prefix "p" and the suffix "s"
Configs ==
    {[mode |-> "minimal", debugSymbol |-> <<95>>, prefix |-> <<>>,
      suffix |-> <<>>, seed |-> 0],
     [mode |-> "minimal", debugSymbol |-> <<95>>, prefix |-> <<49>>,
      suffix |-> <<115>>, seed |-> 0],
     [mode |-> "debug", debugSymbol |-> <<95>>, prefix |-> <<>>,
      suffix |-> <<>>, seed |-> 0],
     [mode |-> "debug", debugSymbol |-> <<95>>, prefix |-> <<112>>,
      suffix |-> <<115>>, seed |-> 0],
     [mode |-> "hash", debugSymbol |-> <<95>>, prefix |-> <<>>,
      suffix |-> <<>>, seed |-> 1]}

\* names of the stylesheet: x, y, div, data, before
NameX == <<120>>
NameY == <<121>>
NameDiv == <<100, 105, 118>>
NameData == <<100, 97, 116, 97>>
NameBefore == <<98, 101, 102, 111, 114, 101>>

SelectorNode(selector) ==
    [visit |-> "Selector", selector |-> selector, ident |-> <<>>]

DashedIdentNode(ident) ==
    [visit |-> "DashedIdent", selector |-> <<>>, ident |-> <<45, 45>> \o ident]

\* the selectors the engine may visit:
\*   .x      div#x .y      *[data]:hover.y::before      .y:not(.x)
\*   :is(:not(.x), .y)     .x:is()      :host(.x)     :nth-child(2n of .y)
SelectorNodes ==
    {SelectorNode(<<Class(NameX)>>),
     SelectorNode(<<Type(NameDiv), Id(NameX), Descendant, Class(NameY)>>),
     SelectorNode(<<Universal, Attribute(NameData), PseudoClass("hover", <<>>),
                    Class(NameY), PseudoElement(NameBefore)>>),
     SelectorNode(<<Class(NameY), PseudoClass("not", << <<Class(NameX)>> >>)>>),
     SelectorNode(<<PseudoClass("is",
                      << <<PseudoClass("not", << <<Class(NameX)>> >>)>>,
                         <<Class(NameY)>> >>)>>),
     SelectorNode(<<Class(NameX), PseudoClass("is", <<>>)>>),
     SelectorNode(<<PseudoClass("host", << <<Class(NameX)>> >>)>>),
     SelectorNode(<<PseudoClass("nth-child", << <<Class(NameY)>> >>)>>)}

\* the dashed identifiers the engine may visit: --x, --y, --valueOf
DashedIdentNodes ==
    {DashedIdentNode(NameX), DashedIdentNode(NameY), DashedIdentNode(valueOf)}

\* the conversionTables a caller may pass:
\*   none;
\*   selector {"\.x": "\.p", "\#x": "q"}, ident {"x": "q"};
\*   selector {"\.x": "\.p \#q"};
\*   selector {"\.x": ""}, ident {"x": ""};
\*   selector {"\.y": "\.a"}, ident {"y": "b"}, kept from a minimal-mode run;
\*   selector {"\.x": 5}, ident {"x": 5}, as the command line tool passes
\*   them when the tables file holds numbers
SuppliedTables ==
    {NoTables,
     Tables((<<92, 46, 120>> :> <<92, 46, 112>>) @@
            (<<92, 35, 120>> :> <<113>>),
            (<<120>> :> <<113>>)),
     Tables((<<92, 46, 120>> :> <<92, 46, 112, 32, 92, 35, 113>>), EmptyTable),
     Tables((<<92, 46, 120>> :> <<>>), (<<120>> :> <<>>)),
     Tables((<<92, 46, 121>> :> <<92, 46, 97>>), (<<121>> :> <<98>>)),
     Tables((<<92, 46, 120>> :> JsonNumber(<<53>>)),
            (<<120>> :> JsonNumber(<<53>>)))}

WalkerState ==
    [sel |-> selectorConversionTable, counter |-> minimalCounter,
     log |-> created, instance |-> hashInstance, threw |-> FALSE]

MainInit ==
    /\ hashInstance = TRUE
    /\ call = 0
    /\ cfg = NoConfig
    /\ supplied = NoTables
    /\ status = "idle"
    /\ selectorConversionTable = EmptyTable
    /\ identConversionTable = EmptyTable
    /\ minimalCounter = 0
    /\ input = <<>>
    /\ pos = 0
    /\ out = <<>>
    /\ created = <<>>
    /\ first = NoResult
    /\ resupplied = FALSE

\* transform, up to the call of the CSS engine: the tables are the caller's
\* or new ones, and the strategy is created
Transform(c, t) ==
    /\ call = 0
    /\ status = "idle"
    /\ call' = 1
    /\ cfg' = c
    /\ supplied' = t
    /\ selectorConversionTable' = t.selector
    /\ identConversionTable' = t.ident
    /\ minimalCounter' = InitialMinimalCounter
    /\ status' = "running"
    /\ UNCHANGED <<hashInstance, input, pos, out, created, first, resupplied>>

\* a second transform call on the same input and parameters, after a first
\* call that started from empty tables: with no tables, or with the tables
\* the first call returned; the calls run again are those of fewer than
\* MaxVisits visits
TransformAgain(reuse) ==
    /\ call = 1
    /\ supplied = NoTables
    /\ Len(input) < MaxVisits
    /\ IF reuse THEN status = "returned" ELSE status \in {"returned", "threw"}
    /\ call' = 2
    /\ first' = [status |-> status, out |-> out,
                 tables |-> Tables(selectorConversionTable,
                                   identConversionTable)]
    /\ resupplied' = reuse
    /\ supplied' = IF reuse
                   THEN Tables(selectorConversionTable, identConversionTable)
                   ELSE NoTables
    /\ selectorConversionTable' =
          IF reuse THEN selectorConversionTable ELSE EmptyTable
    /\ identConversionTable' =
          IF reuse THEN identConversionTable ELSE EmptyTable
    /\ minimalCounter' = InitialMinimalCounter
    /\ status' = "running"
    /\ pos' = 0
    /\ out' = <<>>
    /\ created' = <<>>
    /\ UNCHANGED <<hashInstance, cfg, input>>

\* the node the engine visits next: any node in the first call, the same
\* nodes again in the second
MayVisit(node) ==
    /\ status = "running"
    /\ IF call = 1 THEN pos < MaxVisits
       ELSE pos < Len(input) /\ node = input[pos + 1]

Visited(node) ==
    /\ pos' = pos + 1
    /\ input' = IF call = 1 THEN Append(input, node) ELSE input
    /\ UNCHANGED <<hashInstance, call, cfg, supplied, first, resupplied>>

\* the Selector visitor returns what the walker returned, h; the table
\* and the counter are as the walk left them
Walked(h) ==
    /\ selectorConversionTable' = h.st.sel
    /\ minimalCounter' = h.st.counter
    /\ created' = h.st.log
    /\ status' = IF h.st.threw THEN "threw" ELSE "running"
    /\ out' = IF h.st.threw THEN out ELSE Append(out, SelectorNode(h.ret))

\* the Selector visitor
Selector(node) ==
    /\ MayVisit(node)
    /\ Walked(HandleSelector(cfg, node.selector, WalkerState))
    /\ Visited(node)
    /\ UNCHANGED identConversionTable

\* the selector table handed to the strategy for an identifier
DashedIdentReadsSelectors == selectorConversionTable

\* the table the DashedIdent visitor hands to the strategy
DashedIdentTable == identConversionTable

\* the DashedIdent visitor
DashedIdent(node) ==
    /\ MayVisit(node)
    /\ LET value == SubSeq(node.ident, 3, Len(node.ident))
           r == convertFunc(cfg, value, DashedIdentTable, FALSE,
                            minimalCounter, hashInstance)
       IN  /\ identConversionTable' = r.table
           /\ minimalCounter' = r.counter
           /\ created' = created \o [i \in 1..Len(r.wrote) |->
                                       LogEntry("ident", r.wrote[i])]
           /\ status' = IF r.threw THEN "threw" ELSE "running"
           /\ out' = IF r.threw THEN out
                     ELSE Append(out, DashedIdentNode(r.ret.s))
    /\ Visited(node)
    /\ UNCHANGED selectorConversionTable

\* the engine has visited every node: transform returns the CSS and the
\* two tables
Return ==
    /\ status = "running"
    /\ call = 2 => pos = Len(input)
    /\ status' = "returned"
    /\ UNCHANGED <<hashInstance, call, cfg, supplied, selectorConversionTable,
                   identConversionTable, minimalCounter, input, pos, out,
                   created, first, resupplied>>

\* the parts of the state a specification leaves alone
EscIdle ==
    /\ x = <<>>
    /\ escaped = <<>>
    /\ unescaped = <<>>
    /\ phase = "idle"

NumIdle ==
    /\ num = 0
    /\ letters = <<>>

NoHash == [threw |-> FALSE, raw |-> <<>>, s |-> <<>>]

HashIdle ==
    /\ pc = [p \in 1..MaxCallers |-> "idle"]
    /\ installs = 0
    /\ hashed = NoHash

ConcIdle == calls = <<>>

Init ==
    /\ MainInit
    /\ EscIdle
    /\ NumIdle
    /\ HashIdle
    /\ ConcIdle

besideMain == <<escVars, numVars, hashVars, concVars>>

Next ==
    \/ \E c \in Configs, t \in SuppliedTables : Transform(c, t) /\ UNCHANGED besideMain
    \/ \E reuse \in BOOLEAN : TransformAgain(reuse) /\ UNCHANGED besideMain
    \/ \E node \in SelectorNodes : Selector(node) /\ UNCHANGED besideMain
    \/ \E node \in DashedIdentNodes : DashedIdent(node) /\ UNCHANGED besideMain
    \/ Return /\ UNCHANGED besideMain

Spec == Init /\ [][Next]_vars

\* one transform call on selectors of every kind of component, those the
\* walker has no case for among them:
\*   div#x .y     *[data]:hover.y::before     & s|*     :host(.x)
\*   .y:not(.x)
\* and on the identifier --x
KindsSelectorNodes ==
    {SelectorNode(<<Type(NameDiv), Id(NameX), Descendant, Class(NameY)>>),
     SelectorNode(<<Universal, Attribute(NameData), PseudoClass("hover", <<>>),
                    Class(NameY), PseudoElement(NameBefore)>>),
     SelectorNode(<<Nesting, Descendant, Namespace(<<115>>), Universal>>),
     SelectorNode(<<PseudoClass("host", << <<Class(NameX)>> >>)>>),
     SelectorNode(<<Class(NameY), PseudoClass("not", << <<Class(NameX)>> >>)>>)}

KindsDashedIdentNodes == {DashedIdentNode(NameX)}

KindsNext ==
    \/ \E c \in Configs, t \in SuppliedTables :
          Transform(c, t) /\ UNCHANGED besideMain
    \/ \E node \in KindsSelectorNodes : Selector(node) /\ UNCHANGED besideMain
    \/ \E node \in KindsDashedIdentNodes :
          DashedIdent(node) /\ UNCHANGED besideMain
    \/ Return /\ UNCHANGED besideMain

KindsSpec == Init /\ [][KindsNext]_vars

----------------------------------------------------------------------------
(* The CSS text the engine prints for what the visitors returned: names    *)
(* are serialised as identifiers, with the escaping of cssEscape.          *)

KindText(kind) ==
    IF kind = "not" THEN <<110, 111, 116>>
    ELSE IF kind = "is" THEN <<105, 115>>
    ELSE IF kind = "host" THEN <<104, 111, 115, 116>>
    ELSE IF kind = "hover" THEN <<104, 111, 118, 101, 114>>
    ELSE IF kind = "nth-child"
    THEN <<110, 116, 104, 45, 99, 104, 105, 108, 100>>
    ELSE <<63>>

\* the name after `--`: every unit escaped as a unit that is not the first
SerializeName(s) ==
    Flat([i \in 1..Len(s) |-> EscapeUnit(<<45, 45>> \o s, i + 2)])

RECURSIVE PrintSelector(_)
RECURSIVE PrintList(_)

PrintComponent(component) ==
    IF component.type = "class" THEN <<46>> \o cssEscape(component.name)
    ELSE IF component.type = "id" THEN <<35>> \o cssEscape(component.name)
    ELSE IF component.type = "type" THEN cssEscape(component.name)
    ELSE IF component.type = "universal" THEN <<42>>
    ELSE IF component.type = "attribute"
    THEN <<91>> \o cssEscape(component.name) \o <<93>>
    ELSE IF component.type = "combinator" THEN <<32>>
    ELSE IF component.type = "nesting" THEN <<38>>
    ELSE IF component.type = "namespace"
    THEN cssEscape(component.name) \o <<124>>
    ELSE IF component.type = "pseudo-element"
    THEN <<58, 58>> \o cssEscape(component.name)
    ELSE IF component.kind \in {"hover", "host"} /\ component.sels = <<>>
    THEN <<58>> \o KindText(component.kind)
    ELSE <<58>> \o KindText(component.kind) \o <<40>>
         \o PrintList(component.sels) \o <<41>>

PrintSelector(selector) ==
    IF selector = <<>> THEN <<>>
    ELSE PrintComponent(Head(selector)) \o PrintSelector(Tail(selector))

PrintList(sels) ==
    IF sels = <<>> THEN <<>>
    ELSE IF Len(sels) = 1 THEN PrintSelector(Head(sels))
    ELSE PrintSelector(Head(sels)) \o <<44>> \o PrintList(Tail(sels))

PrintNode(node) ==
    IF node.visit = "Selector" THEN PrintSelector(node.selector) \o <<123, 125>>
    ELSE <<45, 45>> \o SerializeName(SubSeq(node.ident, 3, Len(node.ident)))
         \o <<59>>

\* the css field of the result
Css(nodes) == Flat([i \in 1..Len(nodes) |-> PrintNode(nodes[i])])

----------------------------------------------------------------------------
(* Tokens of the input *)

\* the class and id components of a selector, nested ones included, in the
\* order of the walk
RECURSIVE TokensOf(_)
RECURSIVE TokensOfList(_)

TokensOf(selector) ==
    IF selector = <<>> THEN <<>>
    ELSE LET component == Head(selector)
         IN  (IF component.type \in {"class", "id"} THEN <<component>>
              ELSE TokensOfList(component.sels))
             \o TokensOf(Tail(selector))

TokensOfList(sels) ==
    IF sels = <<>> THEN <<>>
    ELSE TokensOf(Head(sels)) \o TokensOfList(Tail(sels))

\* how many times the component occurs in the selector, at any depth
RECURSIVE CountIn(_, _)
RECURSIVE CountInList(_, _)

CountIn(selector, component) ==
    IF selector = <<>> THEN 0
    ELSE (IF Head(selector) = component THEN 1 ELSE 0)
         + CountInList(Head(selector).sels, component)
         + CountIn(Tail(selector), component)

CountInList(sels, component) ==
    IF sels = <<>> THEN 0
    ELSE CountIn(Head(sels), component) + CountInList(Tail(sels), component)

\* the tokens of a visited node, as [tbl, text]: the table that names the
\* token and the text that is escaped into its key
NodeTokens(node) ==
    IF node.visit = "DashedIdent"
    THEN <<[tbl |-> "ident", text |-> SubSeq(node.ident, 3, Len(node.ident))]>>
    ELSE LET t == TokensOf(node.selector)
         IN  [i \in 1..Len(t) |->
                [tbl |-> "selector",
                 text |-> stringifySelectorComponent(t[i]).s]]

RECURSIVE AllTokens(_)
AllTokens(nodes) ==
    IF nodes = <<>> THEN <<>>
    ELSE NodeTokens(Head(nodes)) \o AllTokens(Tail(nodes))

\* the sequence without the later occurrences of its elements
RECURSIVE Distinct(_, _)
Distinct(s, acc) ==
    IF s = <<>> THEN acc
    ELSE IF \E i \in 1..Len(acc) : acc[i] = Head(s)
         THEN Distinct(Tail(s), acc)
         ELSE Distinct(Tail(s), Append(acc, Head(s)))

\* the distinct tokens of the nodes visited so far, in first-seen order
Seen == Distinct(AllTokens(SubSeq(input, 1, pos)), <<>>)

TableOf(tbl) ==
    IF tbl = "selector" THEN selectorConversionTable ELSE identConversionTable

----------------------------------------------------------------------------
(* The escaping codec applied to one raw string *)

\* one code unit of every class cssEscape distinguishes: NUL, a control
\* character that is also white space (LF), space, '-', '.', the digit '1',
\* '\', '_', the hexadecimal letter 'a', the letter 'g', DEL, U+00E9 and
\* U+FFFD
CodeUnits == {0, 10, 32, 45, 46, 49, 92, 95, 97, 103, 127, 233, 65533}

RawStrings == UNION {[1..n -> CodeUnits] : n \in 0..MaxLen}

EscInit ==
    /\ MainInit
    /\ NumIdle
    /\ HashIdle
    /\ ConcIdle
    /\ x \in RawStrings
    /\ escaped = <<>>
    /\ unescaped = <<>>
    /\ phase = "raw"

Escape ==
    /\ phase = "raw"
    /\ escaped' = cssEscape(x)
    /\ phase' = "escaped"
    /\ UNCHANGED <<x, unescaped>>
    /\ UNCHANGED <<mainVars, numVars, hashVars, concVars>>

Unescape ==
    /\ phase = "escaped"
    /\ unescaped' = cssUnescape(escaped)
    /\ phase' = "unescaped"
    /\ UNCHANGED <<x, escaped>>
    /\ UNCHANGED <<mainVars, numVars, hashVars, concVars>>

EscNext == Escape \/ Unescape

EscSpec == EscInit /\ [][EscNext]_vars

HasNul(s) == \E i \in 1..Len(s) : s[i] = 0

\* C1 (as claimed): for every string x, cssUnescape(cssEscape(x)) equals x.
C1_RoundTripAll == phase = "unescaped" => unescaped = x

\* C1 (amended): for every string x that holds no NUL code unit,
\* cssUnescape(cssEscape(x)) equals x; a NUL is escaped to U+FFFD and comes
\* back as U+FFFD.
C1_RoundTripNoNul ==
    phase = "unescaped" =>
        /\ ~HasNul(x) => unescaped = x
        /\ Len(unescaped) = Len(x)
        /\ \A i \in 1..Len(x) :
              unescaped[i] = IF x[i] = 0 THEN 65533 ELSE x[i]

\* a leading digit followed by a hexadecimal letter, a control character and
\* an escaped punctuation mark have all gone through both directions
C1_Witness ==
    /\ phase = "unescaped"
    /\ x = <<49, 97, 10>>
    /\ escaped = <<92, 51, 49, 32, 97, 92, 97, 32>>
    /\ unescaped = x

----------------------------------------------------------------------------
(* Properties of the transform call *)

Finished == status \in {"returned", "threw"}

\* the generated name of the strategy for counter value n
MinimalName(n) == cfg.prefix \o numberToLetters(n) \o cfg.suffix

\* the component a selector-table key stands for, and the components of a
\* stored value
TokenOfKey(k) == parseSelectorComponent(cssUnescape(k)).comps[1]
Replacement(v) == parseSelectorComponent(cssUnescape(v)).comps

\* C2: a second transform on the same input, given the tables the first
\* transform (from empty tables) returned, returns the same CSS and leaves
\* the tables as they were: no entry added, none changed.
C2_ResupplyIdempotent ==
    (call = 2 /\ resupplied /\ Finished) =>
        /\ status = "returned"
        /\ Css(out) = Css(first.out)
        /\ selectorConversionTable = first.tables.selector
        /\ identConversionTable = first.tables.ident

\* C3: two separate transform calls with the same parameters and empty
\* tables end the same way, with the same CSS and the same two tables.
C3_Determinism ==
    (call = 2 /\ ~resupplied /\ Finished) =>
        /\ status = first.status
        /\ out = first.out
        /\ Css(out) = Css(first.out)
        /\ selectorConversionTable = first.tables.selector
        /\ identConversionTable = first.tables.ident

\* a second call in minimal mode has named an identifier and a class again
C3_Witness ==
    /\ call = 2
    /\ ~resupplied
    /\ status = "returned"
    /\ cfg.mode = "minimal"
    /\ minimalCounter = 2
    /\ DOMAIN selectorConversionTable # {}
    /\ DOMAIN identConversionTable # {}
    /\ out = first.out

\* C4: every entry of a supplied table is still there with the same value,
\* and every occurrence of a supplied key's token is rendered with the
\* stored replacement.
C4_SuppliedPreserved ==
    /\ \A k \in DOMAIN supplied.selector :
          /\ k \in DOMAIN selectorConversionTable
          /\ selectorConversionTable[k] = supplied.selector[k]
    /\ \A k \in DOMAIN supplied.ident :
          /\ k \in DOMAIN identConversionTable
          /\ identConversionTable[k] = supplied.ident[k]
    /\ \A i \in 1..Len(out) :
          IF out[i].visit = "DashedIdent"
          THEN LET k == cssEscape(NodeTokens(input[i])[1].text)
               IN  k \in DOMAIN supplied.ident =>
                      out[i].ident = <<45, 45>> \o supplied.ident[k]
          ELSE \A k \in DOMAIN supplied.selector :
                  LET tok == TokenOfKey(k)
                      rep == Replacement(supplied.selector[k])
                  IN  (CountIn(input[i].selector, tok) > 0
                       /\ CountIn(rep, tok) = 0) =>
                         /\ CountIn(out[i].selector, tok) = 0
                         /\ rep # <<>>
                         /\ CountIn(out[i].selector, rep[1])
                               >= CountIn(input[i].selector, tok)

\* C5: in minimal mode the value stored for a new token differs from every
\* value its table already holds, supplied or written earlier in the call.
C5_FreshNames ==
    cfg.mode = "minimal" =>
        \A i \in 1..Len(created) :
            /\ created[i].val \notin
                  Values(IF created[i].tbl = "selector"
                         THEN supplied.selector ELSE supplied.ident)
            /\ \A j \in 1..(i - 1) :
                  created[j].tbl = created[i].tbl =>
                      created[j].val # created[i].val

\* C6: in minimal mode from empty tables each table holds exactly one entry
\* per distinct token of its kind seen so far, and the n-th distinct token in
\* first-seen order is named numberToLetters(n - 1).
C6_GrowthAccounting ==
    (cfg.mode = "minimal" /\ supplied = NoTables /\ status # "threw") =>
        /\ \A tbl \in {"selector", "ident"} :
              DOMAIN TableOf(tbl) =
                 {cssEscape(Seen[n].text) :
                     n \in {m \in 1..Len(Seen) : Seen[m].tbl = tbl}}
        /\ \A n \in 1..Len(Seen) :
              LET k == cssEscape(Seen[n].text)
              IN  /\ k \in DOMAIN TableOf(Seen[n].tbl)
                  /\ TableOf(Seen[n].tbl)[k] =
                        cssEscape(IF Seen[n].tbl = "selector"
                                  THEN <<Seen[n].text[1]>> \o MinimalName(n - 1)
                                  ELSE MinimalName(n - 1))

\* C7: when a supplied selector entry holds a selector of several
\* components, every occurrence of its token, at the top level and nested
\* in a pseudo-class, is replaced by those components.
C7_ComplexExpansion ==
    \A i \in 1..Len(out) :
        out[i].visit = "Selector" =>
            \A k \in DOMAIN supplied.selector :
                LET tok == TokenOfKey(k)
                    rep == Replacement(supplied.selector[k])
                IN  (call = 1 /\ Len(rep) > 1
                     /\ CountIn(input[i].selector, tok) > 0) =>
                       /\ CountIn(out[i].selector, tok) = 0
                       /\ \A j \in 1..Len(rep) :
                             CountIn(out[i].selector, rep[j])
                                >= CountIn(input[i].selector, tok)

\* C8: the keys the engine adds to the selector table are escaped class and
\* id tokens of the input, nested ones included, and each such token becomes
\* a key; every other component, and each pseudo-class wrapper itself, is
\* emitted as it came.
C8_PassThrough ==
    /\ DOMAIN selectorConversionTable \ DOMAIN supplied.selector \subseteq
          {cssEscape(Seen[n].text) :
              n \in {m \in 1..Len(Seen) : Seen[m].tbl = "selector"}}
    /\ \A i \in 1..Len(out) :
          out[i].visit = "Selector" =>
             /\ \A j \in 1..Len(TokensOf(input[i].selector)) :
                   cssEscape(stringifySelectorComponent(
                       TokensOf(input[i].selector)[j]).s)
                     \in DOMAIN selectorConversionTable
             /\ \A j \in 1..Len(input[i].selector) :
                   LET component == input[i].selector[j]
                   IN  IF component.type \in {"class", "id"} THEN TRUE
                       ELSE IF component.type = "pseudo-class"
                                /\ component.sels # <<>>
                       THEN \E n \in 1..Len(out[i].selector) :
                               /\ out[i].selector[n].type = "pseudo-class"
                               /\ out[i].selector[n].kind = component.kind
                       ELSE IF component.type = "pseudo-class"
                       THEN \E n \in 1..Len(out[i].selector) :
                               /\ out[i].selector[n].type = "pseudo-class"
                               /\ out[i].selector[n].kind = component.kind
                               /\ out[i].selector[n].sels = <<>>
                       ELSE \E n \in 1..Len(out[i].selector) :
                               out[i].selector[n] = component

\* the visit of a dashed identifier or of a selector that is one class: a
\* key of the table is a hit that leaves the table alone and returns the
\* entry, anything else is a miss that adds the key
C9_Visit ==
    (pos' = pos + 1 /\ call' = call) =>
        LET node == input'[pos']
            tok == NodeTokens(node)[1]
            k == cssEscape(tok.text)
            before == TableOf(tok.tbl)
            after == IF tok.tbl = "selector" THEN selectorConversionTable'
                     ELSE identConversionTable'
        IN  (node.visit = "DashedIdent" \/ Len(node.selector) = 1) =>
               IF k \in DOMAIN before
               THEN /\ after = before
                    /\ status' = "running"
                    /\ node.visit = "DashedIdent" =>
                          out'[Len(out')].ident = <<45, 45>> \o before[k]
               ELSE /\ k \in DOMAIN after
                    /\ Len(created') = Len(created) + 1

\* C9: a token is already mapped exactly when its escaped form is a key of
\* the table, whatever the stored value and whatever the token's name.
C9_HitIffKey == [][C9_Visit]_vars

\* C10 (as claimed): in minimal mode each table has its own counter: the
\* name of a new selector token is numberToLetters of the number of selector
\* entries created before it.
C10_PerTableCounter ==
    cfg.mode = "minimal" =>
        \A i \in 1..Len(created) :
            created[i].tbl = "selector" =>
                created[i].name =
                    MinimalName(Cardinality(
                        {j \in 1..(i - 1) : created[j].tbl = "selector"}))

\* C10 (amended): in minimal mode one counter serves both tables: the name
\* of a new token, selector or identifier, is numberToLetters of the number
\* of entries created before it in this call in the two tables together.
C10_SharedCounter ==
    cfg.mode = "minimal" =>
        \A i \in 1..Len(created) :
            /\ created[i].name = MinimalName(i - 1)
            /\ created[i].val =
                  cssEscape(IF created[i].tbl = "selector"
                            THEN <<cssUnescape(created[i].key)[1]>>
                                 \o MinimalName(i - 1)
                            ELSE MinimalName(i - 1))

\* an identifier was named first, and the class named after it is b, not a
C10_Witness ==
    /\ cfg.mode = "minimal"
    /\ cfg.prefix = <<>>
    /\ Len(created) = 2
    /\ created[1].tbl = "ident"
    /\ created[2].tbl = "selector"
    /\ created[2].name = <<98>>
    /\ selectorConversionTable = (<<92, 46, 120>> :> <<92, 46, 98>>)

----------------------------------------------------------------------------
(* numberToLetters on its own: the number is drawn, the function applied   *)

NumInit ==
    /\ MainInit
    /\ EscIdle
    /\ HashIdle
    /\ ConcIdle
    /\ num \in 0..MaxNum
    /\ letters = <<>>

NumberToLetters ==
    /\ letters = <<>>
    /\ letters' = numberToLetters(num)
    /\ UNCHANGED <<num, escVars, mainVars, hashVars, concVars>>

NumNext == NumberToLetters

NumSpec == NumInit /\ [][NumNext]_vars

\* the number a string of the digits a..z (worth 1..26) denotes in
\* bijective base 26
RECURSIVE NumeralValue(_)
NumeralValue(s) ==
    IF s = <<>> THEN 0
    ELSE NumeralValue(SubSeq(s, 1, Len(s) - 1)) * 26 + (s[Len(s)] - 96)

\* C11: numberToLetters(n) is the bijective base-26 numeral of n + 1 over
\* the digits a..z, and distinct numbers give distinct strings.
C11_BijectiveNumeral ==
    letters # <<>> =>
        /\ \A i \in 1..Len(letters) : letters[i] \in 97..122
        /\ NumeralValue(letters) = num + 1
        /\ \A m \in 0..MaxNum : m # num => numberToLetters(m) # letters

\* 702 has given the first numeral of three digits, aaa
C11_Witness ==
    /\ num = 702
    /\ letters = <<97, 97, 97>>

----------------------------------------------------------------------------
(* The hash instance of the utilities module: null when the module is      *)
(* loaded, set by initializeHash, read by generateHash. A caller of        *)
(* initializeHash tests the instance, and if it is null awaits xxhash()    *)
(* and assigns the instance when it resumes.                               *)

Callers == 1..MaxCallers

\* the values and seeds of direct generateHash calls
HashValues == UNION {[1..n -> {46, 120, 121}] : n \in 0..MaxHashLen}

Seeds == {0, 1, 125}

HashInit ==
    /\ hashInstance = FALSE
    /\ call = 0
    /\ cfg = NoConfig
    /\ supplied = NoTables
    /\ status = "idle"
    /\ selectorConversionTable = EmptyTable
    /\ identConversionTable = EmptyTable
    /\ minimalCounter = 0
    /\ input = <<>>
    /\ pos = 0
    /\ out = <<>>
    /\ created = <<>>
    /\ first = NoResult
    /\ resupplied = FALSE
    /\ EscIdle
    /\ NumIdle
    /\ HashIdle
    /\ ConcIdle

\* all but the hash instance and the callers of the utilities
besideHash ==
    <<call, cfg, supplied, status, selectorConversionTable,
      identConversionTable, minimalCounter, input, pos, out, created, first,
      resupplied, escVars, numVars, concVars>>

\* initializeHash up to its await: `if (!hashInstance)` and the call of
\* xxhash(), or the return when the instance is set
InitializeHash(p) ==
    /\ pc[p] # "awaiting"
    /\ pc' = [pc EXCEPT ![p] = IF ~hashInstance THEN "awaiting" ELSE "done"]
    /\ UNCHANGED <<hashInstance, installs, hashed>>
    /\ UNCHANGED besideHash

\* xxhash() has resolved: `hashInstance = await xxhash()`, and the return
Resume(p) ==
    /\ pc[p] = "awaiting"
    /\ hashInstance' = TRUE
    /\ installs' = installs + 1
    /\ pc' = [pc EXCEPT ![p] = "done"]
    /\ UNCHANGED hashed
    /\ UNCHANGED besideHash

\* a direct call of generateHash
GenerateHash(value, seed) ==
    /\ hashed' = [threw |-> generateHash(value, seed, hashInstance).threw,
                  raw |-> IF hashInstance THEN h32ToString(value, seed)
                          ELSE <<>>,
                  s |-> generateHash(value, seed, hashInstance).s]
    /\ UNCHANGED <<hashInstance, installs, pc>>
    /\ UNCHANGED besideHash

HashNext ==
    \/ \E p \in Callers : InitializeHash(p)
    \/ \E p \in Callers : Resume(p)
    \/ \E value \in HashValues, seed \in Seeds : GenerateHash(value, seed)

HashSpec == HashInit /\ [][HashNext]_vars

\* C12: generateHash returns the primitive's string with its first
\* character in a..z: kept when already there, else replaced by the
\* character of code 97 + (code mod 26); the other characters are unchanged.
C12_FirstCharLowercase ==
    (~hashed.threw /\ hashed.raw # <<>>) =>
        /\ Len(hashed.s) = Len(hashed.raw)
        /\ hashed.s[1] \in 97..122
        /\ hashed.s[1] = IF hashed.raw[1] \in 97..122 THEN hashed.raw[1]
                         ELSE 97 + (hashed.raw[1] % 26)
        /\ \A i \in 2..Len(hashed.raw) : hashed.s[i] = hashed.raw[i]

\* a hash that starts with a digit has been returned with a letter first
C12_Witness ==
    /\ ~hashed.threw
    /\ hashed.raw # <<>>
    /\ hashed.raw[1] \in 48..57
    /\ hashed.s[1] = 97 + (hashed.raw[1] % 26)

\* C17: the hash instance is installed at most once per process, whether
\* the calls of initializeHash follow each other or overlap.
C17_InstalledOnce == installs <= 1

----------------------------------------------------------------------------
(* Debug mode *)

\* debugSymbol + prefix + value + suffix
DebugName(text) == cfg.debugSymbol \o cfg.prefix \o text \o cfg.suffix

\* the node at position k is the first visit of its dashed identifier, and
\* this call has written the entry of that identifier
FirstVisitOfNewIdent(k) ==
    /\ input[k].visit = "DashedIdent"
    /\ \A j \in 1..(k - 1) : input[j] # input[k]
    /\ \E i \in 1..Len(created) :
          /\ created[i].tbl = "ident"
          /\ created[i].key =
                cssEscape(SubSeq(input[k].ident, 3, Len(input[k].ident)))

\* C13: in debug mode the name generated for a new token is debugSymbol +
\* prefix + original value + suffix, the value verbatim (with its sigil for a
\* class or an id), and a new dashed identifier is emitted as `--` followed
\* by that name.
C13_DebugName ==
    cfg.mode = "debug" =>
        /\ \A i \in 1..Len(created) :
              \E j \in 1..Len(Seen) :
                 /\ Seen[j].tbl = created[i].tbl
                 /\ created[i].key = cssEscape(Seen[j].text)
                 /\ created[i].name = DebugName(Seen[j].text)
        /\ \A k \in 1..Len(out) :
              FirstVisitOfNewIdent(k) =>
                 out[k].ident =
                    <<45, 45>> \o
                    DebugName(SubSeq(input[k].ident, 3, Len(input[k].ident)))

\* with the prefix "p" and the suffix "s", the class .x has been named
\* `_p.xs` and the identifier --x emitted as `--_pxs`
C13_Witness ==
    /\ cfg.mode = "debug"
    /\ cfg.prefix = <<112>>
    /\ status = "returned"
    /\ \E i \in 1..Len(created) :
          /\ created[i].tbl = "selector"
          /\ created[i].name = <<95, 112, 46, 120, 115>>
    /\ \E k \in 1..Len(out) :
          /\ FirstVisitOfNewIdent(k)
          /\ out[k].ident = <<45, 45, 95, 112, 120, 115>>

----------------------------------------------------------------------------
(* The hash strategy used before the hash primitive is initialized: the    *)
(* transform call and its visitors, run while hashInstance is still null   *)

NullHashInit ==
    /\ hashInstance = FALSE
    /\ call = 0
    /\ cfg = NoConfig
    /\ supplied = NoTables
    /\ status = "idle"
    /\ selectorConversionTable = EmptyTable
    /\ identConversionTable = EmptyTable
    /\ minimalCounter = 0
    /\ input = <<>>
    /\ pos = 0
    /\ out = <<>>
    /\ created = <<>>
    /\ first = NoResult
    /\ resupplied = FALSE
    /\ EscIdle
    /\ NumIdle
    /\ HashIdle
    /\ ConcIdle

NullHashSpec == NullHashInit /\ [][Next]_vars

\* the token is in the table of its kind, as the lookup sees it
IsHit(token) == Truthy(Get(TableOf(token.tbl), cssEscape(token.text)))

\* C14: in hash mode with the hash primitive uninitialised, a visit of a
\* token that is not in the table throws (the call does not go on), and both
\* conversion tables stay as they were given: no entry is written.
C14_NullHashThrows ==
    (cfg.mode = "hash" /\ ~hashInstance) =>
        /\ selectorConversionTable = supplied.selector
        /\ identConversionTable = supplied.ident
        /\ created = <<>>
        /\ status \in {"running", "returned"} =>
              \A j \in 1..Len(Seen) : IsHit(Seen[j])

\* after a visit of .x, which the given table maps, the visit of a token
\* the table does not hold has thrown and left the tables as given
C14_Witness ==
    /\ cfg.mode = "hash"
    /\ ~hashInstance
    /\ call = 1
    /\ status = "threw"
    /\ pos = 2
    /\ Len(out) = 1
    /\ supplied.selector # EmptyTable
    /\ ~IsHit(Seen[Len(Seen)])
    /\ selectorConversionTable = supplied.selector
    /\ identConversionTable = supplied.ident

----------------------------------------------------------------------------
(* Tables loaded from a file *)

\* a plain string-to-string mapping
WellFormed(tables) ==
    /\ \A k \in DOMAIN tables.selector : IsString(tables.selector[k])
    /\ \A k \in DOMAIN tables.ident : IsString(tables.ident[k])

\* C15: a loaded table that is not a plain string-to-string mapping is
\* rejected when it is loaded: transform is never called with it.
C15_MalformedRejected == ~WellFormed(supplied) => call = 0

----------------------------------------------------------------------------
(* Two transform calls side by side. Each call has the tables it was given *)
(* (or new ones) and the counter of the strategy closure it created; the   *)
(* visits of the two calls are taken in any order.                         *)

ConcCalls == 1..2

\* the parameters, tables and nodes of the calls: the defaults of minimal
\* and of hash mode; no tables or those of an earlier minimal-mode run; the
\* nodes .x, .y:not(.x) and --x
ConcConfigs == {c \in Configs : c.prefix = <<>> /\ c.mode # "debug"}

ConcTables ==
    {NoTables,
     Tables((<<92, 46, 121>> :> <<92, 46, 97>>), (<<121>> :> <<98>>))}

ConcNodes ==
    {SelectorNode(<<Class(NameX)>>),
     SelectorNode(<<Class(NameY), PseudoClass("not", << <<Class(NameX)>> >>)>>),
     DashedIdentNode(NameX)}

IdleCall ==
    [status |-> "idle", cfg |-> NoConfig, given |-> NoTables,
     sel |-> EmptyTable, idt |-> EmptyTable, counter |-> 0,
     input |-> <<>>, out |-> <<>>, overlapped |-> FALSE]

\* transform up to the call of the CSS engine
StartedCall(c, t) ==
    [status |-> "running", cfg |-> c, given |-> t,
     sel |-> t.selector, idt |-> t.ident, counter |-> InitialMinimalCounter,
     input |-> <<>>, out |-> <<>>, overlapped |-> FALSE]

\* the call after the Selector visitor returned h for the node
AfterSelector(cs, node, h) ==
    [cs EXCEPT !.sel = h.st.sel,
               !.counter = h.st.counter,
               !.status = IF h.st.threw THEN "threw" ELSE "running",
               !.out = IF h.st.threw THEN @ ELSE Append(@, SelectorNode(h.ret)),
               !.input = Append(@, node)]

\* the call after the DashedIdent visitor got r from convertFunc
AfterDashedIdent(cs, node, r) ==
    [cs EXCEPT !.idt = r.table,
               !.counter = r.counter,
               !.status = IF r.threw THEN "threw" ELSE "running",
               !.out = IF r.threw THEN @
                       ELSE Append(@, DashedIdentNode(r.ret.s)),
               !.input = Append(@, node)]

\* one visit of the call cs, whose strategy closure holds counter
Visit(cs, counter, node) ==
    IF node.visit = "Selector"
    THEN AfterSelector(cs, node,
            HandleSelector(cs.cfg, node.selector,
                           [sel |-> cs.sel, counter |-> counter, log |-> <<>>,
                            instance |-> hashInstance, threw |-> FALSE]))
    ELSE AfterDashedIdent(cs, node,
            convertFunc(cs.cfg, SubSeq(node.ident, 3, Len(node.ident)),
                        cs.idt, FALSE, counter, hashInstance))

\* one counter of the module, that of the first call, read by every call
ModuleCounter(i) == calls[1].counter

\* `let minimalCounter = 0` inside createConversionFunction: the counter the
\* strategy of call i reads is the one of the closure that call created
StrategyCounter(i) == calls[i].counter

ConcInit ==
    /\ MainInit
    /\ EscIdle
    /\ NumIdle
    /\ HashIdle
    /\ calls = [i \in ConcCalls |-> IdleCall]

besideConc == <<mainVars, escVars, numVars, hashVars>>

ConcTransform(i, c, t) ==
    /\ calls[i].status = "idle"
    /\ calls' = [calls EXCEPT ![i] = StartedCall(c, t)]
    /\ UNCHANGED besideConc

\* another call is between two of its visits
OtherInProgress(i) ==
    \E j \in ConcCalls :
       j # i /\ calls[j].status = "running" /\ calls[j].input # <<>>

ConcVisit(i, node) ==
    /\ calls[i].status = "running"
    /\ Len(calls[i].input) < MaxConcVisits
    /\ calls' = [calls EXCEPT
                   ![i] = [Visit(calls[i], StrategyCounter(i), node) EXCEPT
                             !.overlapped = @ \/ OtherInProgress(i)]]
    /\ UNCHANGED besideConc

ConcReturn(i) ==
    /\ calls[i].status = "running"
    /\ calls' = [calls EXCEPT ![i].status = "returned"]
    /\ UNCHANGED besideConc

ConcNext ==
    \/ \E i \in ConcCalls, c \in ConcConfigs, t \in ConcTables :
          ConcTransform(i, c, t)
    \/ \E i \in ConcCalls, node \in ConcNodes : ConcVisit(i, node)
    \/ \E i \in ConcCalls : ConcReturn(i)

ConcSpec == ConcInit /\ [][ConcNext]_vars

\* the call run alone on the nodes, from the state cs
RECURSIVE Alone(_, _)
Alone(cs, nodes) ==
    IF nodes = <<>> \/ cs.status = "threw" THEN cs
    ELSE Alone(Visit(cs, cs.counter, Head(nodes)), Tail(nodes))

\* the output, the tables and the outcome of the call cs are those of a
SameResult(cs, a) ==
    /\ a.out = cs.out
    /\ a.sel = cs.sel
    /\ a.idt = cs.idt
    /\ (a.status = "threw") <=> (cs.status = "threw")

\* C16: two transform calls with separate tables do not interfere: in any
\* order of their visits, the output and the tables of each call are those
\* the call gives when it runs alone on the same nodes.
C16_NoInterference ==
    \A i \in ConcCalls :
       calls[i].status # "idle" =>
          SameResult(calls[i], Alone(StartedCall(calls[i].cfg, calls[i].given),
                                     calls[i].input))

\* two minimal-mode calls from empty tables have each visited .x and --x
\* between the visits of the other, and each has named them a and b
C16_Witness ==
    \A i \in ConcCalls :
       /\ calls[i].status = "returned"
       /\ calls[i].cfg.mode = "minimal"
       /\ calls[i].given = NoTables
       /\ calls[i].overlapped
       /\ calls[i].input = <<SelectorNode(<<Class(NameX)>>),
                             DashedIdentNode(NameX)>>
       /\ calls[i].out = <<SelectorNode(<<Class(<<97>>)>>),
                           DashedIdentNode(<<98>>)>>

----------------------------------------------------------------------------
(* Pseudo-classes with nested selectors *)

InPlaceKinds == {"nth-child", "nth-last-child", "host"}

WrapperKinds == {"not", "where", "is", "any", "has"}

IsInPlace(component) ==
    component.type = "pseudo-class" /\ component.kind \in InPlaceKinds

IsWrapper(component) ==
    component.type = "pseudo-class" /\ component.kind \in WrapperKinds

\* the key of a class or id component
KeyOf(token) == cssEscape(stringifySelectorComponent(token).s)

\* the table holds a string for the token that parses as a selector
HasReplacement(token) ==
    /\ KeyOf(token) \in DOMAIN selectorConversionTable
    /\ IsString(selectorConversionTable[KeyOf(token)])
    /\ parseSelectorComponent(
          cssUnescape(selectorConversionTable[KeyOf(token)])).ok

ReplacementOf(token) == Replacement(selectorConversionTable[KeyOf(token)])

\* the token is not among the nested selectors sels, and every component of
\* its replacement is
RewrittenIn(sels, token) ==
    /\ token \in {ReplacementOf(token)[e] : e \in 1..Len(ReplacementOf(token))}
          \/ CountInList(sels, token) = 0
    /\ \A e \in 1..Len(ReplacementOf(token)) :
          CountInList(sels, ReplacementOf(token)[e]) >= 1

\* C18: a class or id token nested in `:host(...)` or in the `of` list of
\* nth-child / nth-last-child is rewritten in the output to the replacement
\* the selector table holds for it, on a table miss and on a table hit, and
\* the pseudo-class itself is returned unchanged. (Stated for the names
\* that are stored as they are emitted: no debug symbol, no prefix.)
C18_NestedRewritten ==
    (cfg.mode # "debug" /\ cfg.prefix = <<>>) =>
        \A k \in 1..Len(out) :
           input[k].visit = "Selector" =>
              \A n \in 1..Len(input[k].selector) :
                 IsInPlace(input[k].selector[n]) =>
                    /\ Len(out[k].selector) >= n
                    /\ out[k].selector[n].type = "pseudo-class"
                    /\ out[k].selector[n].kind = input[k].selector[n].kind
                    /\ \A t \in 1..Len(TokensOfList(input[k].selector[n].sels)) :
                          HasReplacement(
                             TokensOfList(input[k].selector[n].sels)[t]) =>
                             RewrittenIn(out[k].selector[n].sels,
                                TokensOfList(input[k].selector[n].sels)[t])

\* the wrappers among the components of a selector
Wrappers(selector) == SelectSeq(selector, IsWrapper)

\* C19: a `:not`/`:where`/`:is`/`:any`/`:has` component whose walked nested
\* selectors are each still a single Selector is returned as the same
\* wrapper, holding as many selectors as before, for every length of the
\* nested list, the empty list included.
C19_WrapperReturned ==
    \A k \in 1..Len(out) :
       input[k].visit = "Selector" =>
          /\ Len(Wrappers(out[k].selector)) = Len(Wrappers(input[k].selector))
          /\ \A n \in 1..Len(Wrappers(input[k].selector)) :
                /\ Wrappers(out[k].selector)[n].kind =
                      Wrappers(input[k].selector)[n].kind
                /\ Len(Wrappers(out[k].selector)[n].sels) =
                      Len(Wrappers(input[k].selector)[n].sels)

\* the table the call was given holds for the token a replacement of
\* several components, which the lookup finds (a table hit)
ExpandsTo(token) ==
    /\ KeyOf(token) \in DOMAIN supplied.selector
    /\ Truthy(Get(supplied.selector, KeyOf(token)))
    /\ HasReplacement(token)
    /\ Len(ReplacementOf(token)) > 1

\* a wrapper with a nested token that expands
HasExpansion(component) ==
    /\ IsWrapper(component)
    /\ \E t \in 1..Len(TokensOfList(component.sels)) :
          ExpandsTo(TokensOfList(component.sels)[t])

NoTopLevelExpansion(selector) ==
    \A m \in 1..Len(selector) :
       (selector[m].type \in {"class", "id"} /\ HasReplacement(selector[m]))
          => Len(ReplacementOf(selector[m])) = 1

\* the nested tokens of the wrapper that expand are rewritten inside w
ExpansionsIn(wrapper, w) ==
    \A t \in 1..Len(TokensOfList(wrapper.sels)) :
       ExpandsTo(TokensOfList(wrapper.sels)[t]) =>
          RewrittenIn(w.sels, TokensOfList(wrapper.sels)[t])

----------------------------------------------------------------------------
(* The kind of a rewritten component *)

\* the stored value of the token starts, once unescaped, with the sigil of
\* the other kind
CarriesOtherSigil(token) ==
    LET v == cssUnescape(selectorConversionTable[KeyOf(token)])
    IN  /\ v # <<>>
        /\ v[1] \in {46, 35}
        /\ v[1] # stringifySelectorComponent(token).s[1]

\* each component of the output selector stands where the component of the
\* input it came from stood
Aligned(k) ==
    /\ NoTopLevelExpansion(input[k].selector)
    /\ Len(out[k].selector) = Len(input[k].selector)

\* C21: a class or id component that is rewritten to a single component
\* keeps its kind, for a generated name and for a supplied value that is a
\* bare identifier; the kind changes only when the stored value carries the
\* sigil of the other kind.
C21_KindPreserved ==
    \A k \in 1..Len(out) :
       (input[k].visit = "Selector" /\ Aligned(k)) =>
          \A n \in 1..Len(input[k].selector) :
             (input[k].selector[n].type \in {"class", "id"}
              /\ HasReplacement(input[k].selector[n])) =>
                \/ out[k].selector[n].type = input[k].selector[n].type
                \/ CarriesOtherSigil(input[k].selector[n])

----------------------------------------------------------------------------
(* The entries written on a table miss *)

\* the entry is the one a miss on the token writes: the key is the escaped
\* token, the name is the one the strategy generates for it, and the value
\* is the escaped name, after the token's sigil for a class or an id
EntryOf(entry, token) ==
    /\ entry.tbl = token.tbl
    /\ entry.key = cssEscape(token.text)
    /\ entry.name = NewValue(cfg, token.text, entry.counter, hashInstance).s
    /\ entry.val = cssEscape(IF token.tbl = "selector"
                             THEN <<token.text[1]>> \o entry.name
                             ELSE entry.name)

\* C22: every entry written on a table miss has the escaped token as its
\* key and the escaped stored form as its value: `.` + generated name for a
\* class, `#` + generated name for an id, and the generated name without a
\* sigil for a dashed identifier, whose key is the name without `--`.
C22_EntryForm ==
    \A i \in 1..Len(created) :
       /\ \E n \in 1..Len(Seen) : EntryOf(created[i], Seen[n])
       /\ created[i].tbl = "selector" =>
             /\ cssUnescape(created[i].key)[1] \in {46, 35}
             /\ cssUnescape(created[i].val)[1] = cssUnescape(created[i].key)[1]
       /\ created[i].tbl = "ident" =>
             /\ created[i].key \in
                   {cssEscape(SubSeq(input[k].ident, 3, Len(input[k].ident))) :
                       k \in {m \in 1..pos : input[m].visit = "DashedIdent"}}
             /\ created[i].val = cssEscape(created[i].name)

\* div#x .y and --x have been visited in minimal mode: #x is stored as #a,
\* .y as .b and x as c
C22_Witness ==
    /\ cfg.mode = "minimal"
    /\ cfg.prefix = <<>>
    /\ supplied = NoTables
    /\ Len(created) = 3
    /\ created[1].key = <<92, 35, 120>> /\ created[1].val = <<92, 35, 97>>
    /\ created[2].key = <<92, 46, 121>> /\ created[2].val = <<92, 46, 98>>
    /\ created[3].tbl = "ident"
    /\ created[3].key = <<120>> /\ created[3].val = <<99>>

----------------------------------------------------------------------------
(* The counter of the minimal strategy *)

\* the keys the current call has added to a table
AddedKeys(table, given) == DOMAIN table \ DOMAIN given

\* C23: in minimal mode the counter goes up by one on each miss and never
\* on a hit, so that at every point of a call it equals the number of
\* entries the call has created in the two tables.
C23_CounterCountsEntries ==
    cfg.mode = "minimal" =>
        minimalCounter =
            Cardinality(AddedKeys(selectorConversionTable, supplied.selector))
            + Cardinality(AddedKeys(identConversionTable, supplied.ident))

----------------------------------------------------------------------------
(* Components the walker does not handle *)

UnhandledTypes ==
    {"universal", "attribute", "combinator", "namespace", "nesting",
     "pseudo-element"}

IsUnhandled(component) ==
    \/ component.type \in UnhandledTypes
    \/ /\ component.type = "pseudo-class"
       /\ component.kind \notin InPlaceKinds \cup WrapperKinds

\* how many components of the selector itself equal the component
TopCount(selector, component) ==
    Cardinality({n \in 1..Len(selector) : selector[n] = component})

\* the visit of a selector: the ident table is left alone, the keys added
\* to the selector table are those of the selector's class and id tokens, a
\* selector without such tokens writes nothing and raises nothing, each
\* unhandled component is returned as it came, and every class and id
\* token, also one that follows an unhandled component, is named
C24_Visit ==
    (pos' = pos + 1 /\ call' = call /\ input'[pos'].visit = "Selector") =>
        /\ identConversionTable' = identConversionTable
        /\ AddedKeys(selectorConversionTable', selectorConversionTable)
              \subseteq {KeyOf(TokensOf(input'[pos'].selector)[t]) :
                            t \in 1..Len(TokensOf(input'[pos'].selector))}
        /\ TokensOf(input'[pos'].selector) = <<>> =>
              /\ status' = "running"
              /\ selectorConversionTable' = selectorConversionTable
              /\ minimalCounter' = minimalCounter
              /\ out'[Len(out')].selector = input'[pos'].selector
        /\ status' = "running" =>
              /\ Len(out') = Len(out) + 1
              /\ \A n \in 1..Len(input'[pos'].selector) :
                    IsUnhandled(input'[pos'].selector[n]) =>
                       TopCount(out'[Len(out')].selector,
                                input'[pos'].selector[n])
                          >= TopCount(input'[pos'].selector,
                                      input'[pos'].selector[n])
              /\ \A t \in 1..Len(TokensOf(input'[pos'].selector)) :
                    Truthy(Get(selectorConversionTable',
                               KeyOf(TokensOf(input'[pos'].selector)[t])))

\* C24: a component of a kind the walker does not handle is returned
\* unmodified, changes neither table, raises no error and does not stop the
\* walk: the components that follow it are still processed.
C24_UnhandledPassThrough == [][C24_Visit]_vars

\* `*[data]:hover.y::before` and `& s|*` have been visited in minimal mode:
\* the class after the unhandled components is renamed, and every other
\* component is returned as it came
C24_Witness ==
    /\ cfg.mode = "minimal"
    /\ supplied = NoTables
    /\ Len(out) = 2
    /\ input[1].selector =
          <<Universal, Attribute(NameData), PseudoClass("hover", <<>>),
            Class(NameY), PseudoElement(NameBefore)>>
    /\ out[1].selector =
          <<Universal, Attribute(NameData), PseudoClass("hover", <<>>),
            Class(<<97>>), PseudoElement(NameBefore)>>
    /\ input[2].selector = <<Nesting, Descendant, Namespace(<<115>>), Universal>>
    /\ out[2].selector = input[2].selector
    /\ selectorConversionTable = (<<92, 46, 121>> :> <<92, 46, 97>>)

----------------------------------------------------------------------------
(* The errors of the walker *)

\* the lookup of the token finds a value that is not a string, or a string
\* the selector parser rejects: the errors of cssUnescape and of the engine
LookupFails(token) ==
    /\ Truthy(Get(selectorConversionTable, KeyOf(token)))
    /\ \/ Get(selectorConversionTable, KeyOf(token)).kind # "own"
       \/ ~parseSelectorComponent(cssUnescape(
              Get(selectorConversionTable, KeyOf(token)).s)).ok

\* C25: the "Unhandled component stringify" error is never raised: every
\* class and id component the walker receives, at any depth, has a defined
\* and non-empty text, and a call that ends with an error (the hash
\* primitive being initialized) ended in the lookup of a token.
C25_StringifyDefined ==
    /\ \A k \in 1..pos :
          \A t \in 1..Len(TokensOf(input[k].selector)) :
             /\ stringifySelectorComponent(TokensOf(input[k].selector)[t]).defined
             /\ stringifySelectorComponent(TokensOf(input[k].selector)[t]).s
                   # <<>>
    /\ (status = "threw" /\ hashInstance) =>
          /\ input[pos].visit = "Selector"
          /\ \E t \in 1..Len(TokensOf(input[pos].selector)) :
                LookupFails(TokensOf(input[pos].selector)[t])

\* an id, a class, and classes nested in :host(...) and in :not(...) have
\* been walked, and the call has returned
C25_Witness ==
    /\ status = "returned"
    /\ Len(out) = 3
    /\ input[1].selector =
          <<Type(NameDiv), Id(NameX), Descendant, Class(NameY)>>
    /\ input[2].selector = <<PseudoClass("host", << <<Class(NameX)>> >>)>>
    /\ input[3].selector =
          <<Class(NameY), PseudoClass("not", << <<Class(NameX)>> >>)>>

----------------------------------------------------------------------------
(* The two tables side by side *)

\* one transform call on the selectors .x, div#x .y and .y:not(.x) and the
\* identifiers --x and --y, with every parameter set and every supplied
\* table, and with a table whose value holds its own key:
\* selector {"\.x": "\.x \.x"}
TablesSelectorNodes ==
    {SelectorNode(<<Class(NameX)>>),
     SelectorNode(<<Type(NameDiv), Id(NameX), Descendant, Class(NameY)>>),
     SelectorNode(<<Class(NameY), PseudoClass("not", << <<Class(NameX)>> >>)>>)}

SelfContaining ==
    Tables((<<92, 46, 120>> :> <<92, 46, 120, 32, 92, 46, 120>>), EmptyTable)

TablesDashedIdentNodes == {DashedIdentNode(NameX), DashedIdentNode(NameY)}

TablesNext ==
    \/ \E c \in Configs, t \in SuppliedTables \cup {SelfContaining} :
          Transform(c, t) /\ UNCHANGED besideMain
    \/ \E node \in TablesSelectorNodes : Selector(node) /\ UNCHANGED besideMain
    \/ \E node \in TablesDashedIdentNodes :
          DashedIdent(node) /\ UNCHANGED besideMain
    \/ Return /\ UNCHANGED besideMain

TablesSpec == Init /\ [][TablesNext]_vars

IsSelectorNode(node) == node.visit = "Selector"

IsDashedIdentNode(node) == node.visit = "DashedIdent"

IsPrefix(s, t) == Len(s) <= Len(t) /\ s = SubSeq(t, 1, Len(s))

\* the first call on the nodes visited so far, had it been given no ident
\* table, and had it been given no selector table
WithoutIdentTable ==
    Alone(StartedCall(cfg, Tables(supplied.selector, EmptyTable)),
          SubSeq(input, 1, pos))

WithoutSelectorTable ==
    Alone(StartedCall(cfg, Tables(EmptyTable, supplied.ident)),
          SubSeq(input, 1, pos))

\* the selectors come out as they do without the ident table, and the
\* identifiers as they do without the selector table (as far as both calls
\* got: a call may end early with an error raised for a selector)
SameSelectors(a) ==
    /\ SelectSeq(out, IsSelectorNode) = SelectSeq(a.out, IsSelectorNode)
    /\ selectorConversionTable = a.sel

BothReturn(b) == status # "threw" /\ b.status # "threw"

SameIdents(b) ==
    /\ \/ IsPrefix(SelectSeq(out, IsDashedIdentNode),
                   SelectSeq(b.out, IsDashedIdentNode))
       \/ IsPrefix(SelectSeq(b.out, IsDashedIdentNode),
                   SelectSeq(out, IsDashedIdentNode))
    /\ BothReturn(b) => identConversionTable = b.idt

\* C26 (as claimed): a mapping in one table never affects how the other
\* kind is renamed: selectors are renamed as they are without the ident
\* table, identifiers as they are without the selector table.
C26_NeverAffects ==
    call = 1 =>
        SameSelectors(WithoutIdentTable) /\ SameIdents(WithoutSelectorTable)

\* a visit writes one table only
C26_Visit ==
    (pos' = pos + 1 /\ call' = call) =>
        IF input'[pos'].visit = "Selector"
        THEN identConversionTable' = identConversionTable
        ELSE selectorConversionTable' = selectorConversionTable

\* which tokens of a kind are already mapped depends on the table of that
\* kind alone, and outside minimal mode so do the names
OwnTable(a, b) ==
    /\ DOMAIN selectorConversionTable = DOMAIN a.sel
    /\ BothReturn(b) => DOMAIN identConversionTable = DOMAIN b.idt
    /\ cfg.mode # "minimal" => SameSelectors(a) /\ SameIdents(b)

C26_OwnTable ==
    call = 1 => OwnTable(WithoutIdentTable, WithoutSelectorTable)

\* C26 (amended): a selector visit neither reads nor writes the ident
\* table and a dashed-identifier visit neither reads nor writes the
\* selector table; which tokens are already mapped depends on the table of
\* their kind alone, and in hash and debug mode so do their names. In
\* minimal mode the names of one kind depend, through the shared counter,
\* on how many tokens of the other kind were new.
C26_TablesSeparate == [][C26_Visit]_vars /\ []C26_OwnTable

\* --x and .x have been visited in debug mode: the same name has an entry
\* in each table
C26_Witness ==
    /\ cfg.mode = "debug"
    /\ cfg.prefix = <<>>
    /\ supplied = Tables((<<92, 46, 121>> :> <<92, 46, 97>>),
                         (<<121>> :> <<98>>))
    /\ input = <<DashedIdentNode(NameX), SelectorNode(<<Class(NameX)>>),
                 DashedIdentNode(NameY)>>
    /\ out = <<DashedIdentNode(<<95, 120>>),
               SelectorNode(<<Class(<<95, 46, 120>>)>>),
               DashedIdentNode(<<98>>)>>
    /\ identConversionTable = (<<120>> :> <<95, 120>>) @@ supplied.ident
    /\ selectorConversionTable =
          (<<92, 46, 120>> :> <<92, 46, 95, 92, 46, 120>>) @@ supplied.selector

----------------------------------------------------------------------------
(* Later occurrences of a token *)

\* a selector without pseudo-classes that nest selectors
IsFlat(selector) ==
    \A n \in 1..Len(selector) :
       ~IsInPlace(selector[n]) /\ ~IsWrapper(selector[n])

\* C27: within one call every occurrence of the same class or id token is
\* rewritten to the same components: a selector that is visited again (its
\* tokens being table hits by then) comes out as it did the first time (a
\* table miss), in every mode and for every debugSymbol, prefix and suffix.
C27_SameEveryTime ==
    \A i \in 1..pos : \A j \in 1..pos :
       (i < j /\ input[i].visit = "Selector" /\ input[j] = input[i]
        /\ IsFlat(input[i].selector)) =>
          /\ Len(out) >= j
          /\ out[j] = out[i]

\* C28: within one call every occurrence of the same dashed identifier is
\* rewritten to the same text: what the strategy returns for it the first
\* time (the generated name) is what it returns later (the stored value),
\* for every identifier, prefix, suffix and debugSymbol.
C28_SameIdentEveryTime ==
    \A i \in 1..pos : \A j \in 1..pos :
       (i < j /\ input[i].visit = "DashedIdent" /\ input[j] = input[i]) =>
          /\ Len(out) >= j
          /\ out[j].ident = out[i].ident

----------------------------------------------------------------------------
(* The first character of a hash *)

\* the characters of the strings the hash primitive returns: 0-9 and a-f
HexDigits == (48..57) \cup (97..102)

\* the strings the primitive can return, at the width of h32ToString here
PrimitiveOutputs == [1..Len(h32ToString(<<>>, 0)) -> HexDigits]

\* C29: the first-character remap keeps distinct outputs of the hash
\* primitive distinct: no other output of the primitive is turned into the
\* string generateHash returned.
C29_RemapInjective ==
    (~hashed.threw /\ hashed.raw # <<>>) =>
        \A other \in PrimitiveOutputs :
           other # hashed.raw => ForceFirstChar(other) # hashed.s

----------------------------------------------------------------------------
(* The end of the walk *)

\* the lookup of the token in the table finds a selector to put in its
\* place
HitsIn(table, token) ==
    /\ token.type \in {"class", "id"}
    /\ Truthy(Get(table, KeyOf(token)))
    /\ Get(table, KeyOf(token)).kind = "own"

\* the number of components the walker returns for a component: those of
\* the stored selector for a hit, else one
RECURSIVE ReturnedLength(_, _)
ReturnedLength(table, selector) ==
    IF selector = <<>> THEN 0
    ELSE (IF HitsIn(table, Head(selector))
          THEN Len(Replacement(table[KeyOf(Head(selector))]))
          ELSE 1)
         + ReturnedLength(table, Tail(selector))

\* the visit of a selector ends, with a result or an error; the table gets
\* no key but those of the selector's own tokens, so no component of a
\* replacement is looked up or renamed; a selector of one class that is a
\* hit comes out as the stored selector, as parsed; and a selector whose
\* tokens are hits comes out with the components of each stored selector
\* once
C30_Visit ==
    (pos' = pos + 1 /\ call' = call /\ input'[pos'].visit = "Selector") =>
        /\ status' \in {"running", "threw"}
        /\ AddedKeys(selectorConversionTable', selectorConversionTable)
              \subseteq {KeyOf(TokensOf(input'[pos'].selector)[t]) :
                            t \in 1..Len(TokensOf(input'[pos'].selector))}
        /\ status' = "running" =>
              /\ (Len(input'[pos'].selector) = 1
                   /\ HitsIn(selectorConversionTable, input'[pos'].selector[1]))
                  => /\ out'[Len(out')].selector =
                           Replacement(selectorConversionTable[
                               KeyOf(input'[pos'].selector[1])])
                     /\ selectorConversionTable' = selectorConversionTable
              /\ IsFlat(input'[pos'].selector) =>
                    Len(out'[Len(out')].selector) =
                       ReturnedLength(selectorConversionTable,
                                      input'[pos'].selector)
              /\ \A n \in 1..Len(input'[pos'].selector) :
                    (IsWrapper(input'[pos'].selector[n])
                     /\ Len(input'[pos'].selector[n].sels) = 1
                     /\ Len(input'[pos'].selector[n].sels[1]) = 1
                     /\ HitsIn(selectorConversionTable,
                               input'[pos'].selector[n].sels[1][1])) =>
                       \E m \in 1..Len(out'[Len(out')].selector) :
                          out'[Len(out')].selector[m].sels =
                             <<Replacement(selectorConversionTable[
                                 KeyOf(input'[pos'].selector[n].sels[1][1])])>>

\* C30: the walker ends on every selector and every table: the components
\* a table-driven expansion yields are inserted as parsed and are not
\* walked again, so an entry whose stored value holds its own key (`.x`
\* mapped to `.x .x`) is expanded once.
C30_WalkEnds == [][C30_Visit]_vars

\* .x and .y:not(.x) have been visited with .x mapped to `.x .x`: each .x
\* has become `.x .x`, once
C30_Witness ==
    /\ supplied = SelfContaining
    /\ cfg.mode = "minimal"
    /\ cfg.prefix = <<>>
    /\ status = "returned"
    /\ input = <<SelectorNode(<<Class(NameX)>>),
                 SelectorNode(<<Class(NameY),
                                PseudoClass("not", << <<Class(NameX)>> >>)>>)>>
    /\ out = <<SelectorNode(<<Class(NameX), Descendant, Class(NameX)>>),
               SelectorNode(<<Class(<<97>>),
                              PseudoClass("not",
                                 << <<Class(NameX), Descendant,
                                      Class(NameX)>> >>)>>)>>
    /\ selectorConversionTable =
          (<<92, 46, 121>> :> <<92, 46, 97>>) @@ supplied.selector

====
